---- MODULE Spec2Model ----
(***************************************************************************)
(* Password-reset OTP lifecycle of fitsphere_sendOTP: the issuance handler *)
(* (src/send_otp/index.js) and the verification handler                    *)
(* (src/verify_otp/index.js) running as independent requests against the   *)
(* shared user directory, profile store, mailer and authenticator.         *)
(***************************************************************************)
EXTENDS Integers, Sequences, FiniteSets, TLC

(* ------------------------------ bounds --------------------------------- *)
NumSlots == 2          \* requests that may be in flight at the same time
MaxRequests == 3       \* requests started in one behaviour
MaxTicks == 2          \* clock advances in one behaviour
TickSeconds == 400     \* seconds the clock advances per tick

(* --------------------------- configuration ----------------------------- *)
OTP_EXPIRY_MINUTES == 10
OTP_STEP_SECONDS == OTP_EXPIRY_MINUTES * 60
SendOptions == [digits |-> 6, step |-> OTP_STEP_SECONDS, window |-> 0]

V_OTP_EXPIRY_MINUTES == 10
V_OTP_STEP_SECONDS == V_OTP_EXPIRY_MINUTES * 60
\* variant: the verifying side tolerates the neighbouring windows
VerifyOptionsWindow1 == [digits |-> 6, step |-> V_OTP_STEP_SECONDS, window |-> 1]
\* variant: the verifying side uses a 5-minute step
VerifyOptionsStep300 == [digits |-> 6, step |-> 300, window |-> 0]
VerifyOptions == [digits |-> 6, step |-> V_OTP_STEP_SECONDS, window |-> 0]

MinPasswordLength == 8

(* ------------------------------ values --------------------------------- *)
Null == 0              \* passwordResetSecret: null (falsy)
BadSecret == 0 - 1     \* a stored value that is not a base32 string

Slots == 1 .. NumSlots

EmailA == <<"a", "@", "x", ".", "i", "o">>
EmailB == <<"b", "@", "x", ".", "i", "o">>
EmailC == <<"c", "@", "x", ".", "i", "o">>
EmailNobody == <<"n", "@", "x", ".", "i", "o">>
EmailMalformed == <<"n", "o", "t", "-", "a", "n">>
NoEmail == <<>>
Emails == {EmailA, EmailB, EmailC, EmailNobody, EmailMalformed, NoEmail}

\* the directory (users.list): accounts by email
Directory == (EmailA :> "u1") @@ (EmailB :> "u2") @@ (EmailC :> "u3")
\* users that have a profile document in the users collection; the document
\* of u2 holds a passwordResetSecret that was not written by these handlers
ProfileUsers == {"u1", "u2"}

Passwords == {"", "short1", "NewPass123"}

DigitChar == <<"0", "1", "2", "3", "4", "5", "6", "7", "8", "9">>
IsDigit(ch) == \E i \in 1 .. 10 : DigitChar[i] = ch

NoOtp == <<>>
OtpLetter == <<"1", "2", "a", "4", "5", "6">>
OtpShort == <<"1", "2", "3", "4", "5">>
OtpWrong == <<"0", "0", "0", "0", "0", "0">>
FixedOtps == {NoOtp, OtpLetter, OtpShort, OtpWrong}

(* ----------------------------- TOTP engine ----------------------------- *)
\* stand-in for the HMAC digest after dynamic truncation (a value below 2^31)
Hmac(secret, counter) == secret * 2654435 + counter * 350377 + 31337

RECURSIVE Pow10(_)
Pow10(n) == IF n = 0 THEN 1 ELSE 10 * Pow10(n - 1)

RECURSIVE Digits(_)
Digits(n) == IF n < 10 THEN <<DigitChar[n + 1]>>
             ELSE Append(Digits(n \div 10), DigitChar[(n % 10) + 1])

RECURSIVE PadStart(_, _)
PadStart(s, n) == IF Len(s) >= n THEN s ELSE PadStart(<<"0">> \o s, n)

\* HOTP token for a counter
HotpToken(secret, counter, opts) ==
    PadStart(Digits(Hmac(secret, counter) % Pow10(opts.digits)), opts.digits)

TotpCounter(t, opts) == t \div opts.step

\* the engine rejects a secret that does not decode
EngineThrows(secret) == secret < 0

\* authenticator.generate(secret) at time t
Generate(secret, t, opts) == HotpToken(secret, TotpCounter(t, opts), opts)

\* authenticator.verify({token, secret}) at time t
Check(token, secret, t, opts) ==
    \E d \in (0 - opts.window) .. opts.window :
        /\ TotpCounter(t, opts) + d >= 0
        /\ token = HotpToken(secret, TotpCounter(t, opts) + d, opts)

(* ------------------------- input validation ---------------------------- *)
IsPlain(ch) == ch \notin {" ", "@"}

\* /^[^\s@]+@[^\s@]+\.[^\s@]+$/
EmailRegexTest(e) ==
    \E i \in 1 .. Len(e) : \E j \in 1 .. Len(e) :
        /\ 1 < i /\ i + 1 < j /\ j < Len(e)
        /\ e[i] = "@" /\ e[j] = "."
        /\ \A k \in 1 .. Len(e) : k # i => IsPlain(e[k])

\* /^\d{6}$/
OtpRegexTest(o) == Len(o) = 6 /\ \A i \in 1 .. Len(o) : IsDigit(o[i])

(* ----------------------------- responses ------------------------------- *)
NoResp == [status |-> 0, success |-> FALSE, message |-> ""]
Fail(status, message) == [status |-> status, success |-> FALSE, message |-> message]

SEmailRequired == Fail(400, "Email is required")
SBadFormat == Fail(400, "Invalid email format")
RNoAccount == Fail(404, "No account found with this email address")
RDirectoryError == Fail(500, "Error verifying email address")
RNoProfile == Fail(404, "User profile not found")
RProfileError == Fail(500, "Error accessing user profile")
SStoreError == Fail(500, "Failed to generate OTP. Please try again.")
SMailError == Fail(500, "Failed to send OTP email. Please try again.")
RUnexpected == Fail(500, "An unexpected error occurred. Please try again.")
\* message: `OTP sent to ${email}. Please check your inbox.`
SSent(email) == [status |-> 200, success |-> TRUE,
                 message |-> "OTP sent to ${email}. Please check your inbox.",
                 email |-> email,
                 expiresInMinutes |-> OTP_EXPIRY_MINUTES]

VMissing == Fail(400, "Email, OTP, and new password are required")
VBadOtpFormat == Fail(400, "Invalid OTP format. OTP must be 6 digits.")
VWeakPassword == Fail(400, "Password must be at least 8 characters long")
VNoPending == Fail(400, "No OTP request found. Please request a new OTP.")
VEngineError == Fail(400, "Invalid OTP or OTP has expired")
VInvalidOtp == Fail(400, "Invalid OTP or OTP has expired. Please request a new OTP.")
VUpdateError == Fail(500, "Failed to update password. Please try again.")
VSuccess == [status |-> 200, success |-> TRUE,
             message |-> "Password reset successful! You can now log in with your new password."]

(* ------------------------------- state --------------------------------- *)
VARIABLES
    now,          \* wall clock, seconds
    ticks,        \* clock advances so far
    store,        \* profile documents: user -> passwordResetSecret
    ver,          \* writes made to each profile document so far
    password,     \* the authenticator's credential of each user
    pwLog,        \* successful users.updatePassword calls, in order
    outbox,       \* mails handed to the transport
    nextSecret,   \* the value the next generateSecret() returns
    started,      \* requests started so far
    req           \* the request running in each slot

vars == <<now, ticks, store, ver, password, pwLog, outbox, nextSecret, started, req>>

Idle == [kind |-> "none", pc |-> "idle", email |-> NoEmail, otp |-> NoOtp,
         newPassword |-> "", user |-> "none", secret |-> Null, seenVer |-> 0,
         checkedAt |-> 0, clr |-> "none", wrote |-> FALSE, resp |-> NoResp]

\* the request has sent its response; the record keeps what it read and checked
Finish(r, response) ==
    [r EXCEPT !.pc = "done", !.resp = response, !.email = NoEmail, !.newPassword = ""]

Init ==
    /\ now = 0
    /\ ticks = 0
    /\ store = ("u1" :> Null) @@ ("u2" :> BadSecret)
    /\ ver = [u \in ProfileUsers |-> 0]
    /\ password = [u \in {"u1", "u2", "u3"} |-> "OldPass000"]
    /\ pwLog = <<>>
    /\ outbox = {}
    /\ nextSecret = 1
    /\ started = 0
    /\ req = [p \in Slots |-> Idle]

Free(p) == req[p].pc \in {"idle", "done"}

\* a new request runs in the first free slot (the slots are interchangeable)
CanStart(p) ==
    /\ Free(p)
    /\ \A q \in Slots : q < p => ~Free(q)
    /\ started < MaxRequests

(* --------------------------- the clock --------------------------------- *)
Tick ==
    /\ ticks < MaxTicks
    /\ now' = now + TickSeconds
    /\ ticks' = ticks + 1
    /\ UNCHANGED <<store, ver, password, pwLog, outbox, nextSecret, started, req>>

(* ------------------- issuance: src/send_otp/index.js ------------------- *)
\* generateSecret(): a fresh random base32 secret
generateSecret == nextSecret

\* parse the body and validate the email, then ask the directory
SStart(p) ==
    /\ CanStart(p)
    /\ \E parses \in BOOLEAN : \E email \in Emails :
         LET r == [Idle EXCEPT !.kind = "send", !.email = email] IN
         req' = [req EXCEPT ![p] =
                   IF ~parses THEN Finish([Idle EXCEPT !.kind = "send"], RUnexpected)
                   ELSE IF email = NoEmail THEN Finish(r, SEmailRequired)
                   ELSE IF ~EmailRegexTest(email) THEN Finish(r, SBadFormat)
                   ELSE [r EXCEPT !.pc = "s_findUser"]]
    /\ started' = started + 1
    /\ UNCHANGED <<now, ticks, store, ver, password, pwLog, outbox, nextSecret>>

\* variant: the empty result is not checked, and reading users[0].$id throws
\* inside the profile lookup
SFindUserNoEmptyCheck(p) ==
    /\ req[p].pc = "s_findUser"
    /\ \E fault \in BOOLEAN :
         req' = [req EXCEPT ![p] =
                   IF fault THEN Finish(@, RDirectoryError)
                   ELSE IF req[p].email \notin DOMAIN Directory THEN Finish(@, RProfileError)
                   ELSE [@ EXCEPT !.pc = "s_fetchDoc", !.user = Directory[req[p].email]]]
    /\ UNCHANGED <<now, ticks, store, ver, password, pwLog, outbox, nextSecret, started>>

\* users.list([Query.equal('email', [email])])
SFindUser(p) ==
    /\ req[p].pc = "s_findUser"
    /\ \E fault \in BOOLEAN :
         req' = [req EXCEPT ![p] =
                   IF fault THEN Finish(@, RDirectoryError)
                   ELSE IF req[p].email \notin DOMAIN Directory THEN Finish(@, RNoAccount)
                   ELSE [@ EXCEPT !.pc = "s_fetchDoc", !.user = Directory[req[p].email]]]
    /\ UNCHANGED <<now, ticks, store, ver, password, pwLog, outbox, nextSecret, started>>

\* authenticator.generate(secret) and what follows it up to the transport call
SDerive(r, secret) ==
    IF EngineThrows(secret) THEN Finish(r, RUnexpected)
    ELSE [r EXCEPT !.pc = "s_sendMail", !.secret = secret,
                   !.otp = Generate(secret, now, SendOptions), !.checkedAt = now]

\* variant: a new secret is generated whether or not one is stored
SFetchDocAlwaysNew(p) ==
    /\ req[p].pc = "s_fetchDoc"
    /\ \E fault \in BOOLEAN :
         LET u == req[p].user IN
         /\ req' = [req EXCEPT ![p] =
                      IF fault THEN Finish(@, RProfileError)
                      ELSE IF u \notin ProfileUsers THEN Finish(@, RNoProfile)
                      ELSE [@ EXCEPT !.pc = "s_writeSecret", !.secret = generateSecret,
                                     !.seenVer = ver[u]]]
         /\ nextSecret' = IF ~fault /\ u \in ProfileUsers
                          THEN nextSecret + 1 ELSE nextSecret
    /\ UNCHANGED <<now, ticks, store, ver, password, pwLog, outbox, started>>

\* database.listDocuments(...), then "generate or get existing secret"
SFetchDoc(p) ==
    /\ req[p].pc = "s_fetchDoc"
    /\ \E fault \in BOOLEAN :
         LET u == req[p].user IN
         /\ req' = [req EXCEPT ![p] =
                      IF fault THEN Finish(@, RProfileError)
                      ELSE IF u \notin ProfileUsers THEN Finish(@, RNoProfile)
                      ELSE IF store[u] = Null
                           THEN [@ EXCEPT !.pc = "s_writeSecret", !.secret = generateSecret,
                                          !.seenVer = ver[u]]
                           ELSE SDerive([@ EXCEPT !.seenVer = ver[u]], store[u])]
         /\ nextSecret' = IF ~fault /\ u \in ProfileUsers /\ store[u] = Null
                          THEN nextSecret + 1 ELSE nextSecret
    /\ UNCHANGED <<now, ticks, store, ver, password, pwLog, outbox, started>>

\* variant: a failed write of the new secret is only logged
SWriteSecretIgnoresFault(p) ==
    /\ req[p].pc = "s_writeSecret"
    /\ \E fault \in BOOLEAN :
         LET u == req[p].user IN
         IF fault
         THEN /\ req' = [req EXCEPT ![p] = SDerive(@, req[p].secret)]
              /\ UNCHANGED <<store, ver>>
         ELSE /\ store' = [store EXCEPT ![u] = req[p].secret]
              /\ ver' = [ver EXCEPT ![u] = @ + 1]
              /\ req' = [req EXCEPT ![p] = SDerive([@ EXCEPT !.wrote = TRUE], req[p].secret)]
    /\ UNCHANGED <<now, ticks, password, pwLog, outbox, nextSecret, started>>

\* database.updateDocument(..., {passwordResetSecret: secret})
SWriteSecret(p) ==
    /\ req[p].pc = "s_writeSecret"
    /\ \E fault \in BOOLEAN :
         LET u == req[p].user IN
         IF fault
         THEN /\ req' = [req EXCEPT ![p] = Finish(@, SStoreError)]
              /\ UNCHANGED <<store, ver>>
         ELSE /\ store' = [store EXCEPT ![u] = req[p].secret]
              /\ ver' = [ver EXCEPT ![u] = @ + 1]
              /\ req' = [req EXCEPT ![p] = SDerive([@ EXCEPT !.wrote = TRUE], req[p].secret)]
    /\ UNCHANGED <<now, ticks, password, pwLog, outbox, nextSecret, started>>

UpdatesOf(u) == Cardinality({i \in 1 .. Len(pwLog) : pwLog[i].user = u})

\* variant: a failed delivery takes back the secret the request has written
SSendMailRollsBack(p) ==
    /\ req[p].pc = "s_sendMail"
    /\ \E fault \in BOOLEAN :
         IF fault
         THEN /\ req' = [req EXCEPT ![p] = Finish(@, SMailError)]
              /\ store' = [store EXCEPT ![req[p].user] = Null]
              /\ ver' = [ver EXCEPT ![req[p].user] = @ + 1]
              /\ UNCHANGED outbox
         ELSE /\ outbox' = outbox \cup
                    {[to |-> req[p].email, user |-> req[p].user, code |-> req[p].otp,
                      secret |-> req[p].secret, t |-> req[p].checkedAt,
                      seenVer |-> req[p].seenVer, found |-> ~req[p].wrote,
                      expiresInMinutes |-> OTP_EXPIRY_MINUTES,
                      epoch |-> UpdatesOf(req[p].user)]}
              /\ req' = [req EXCEPT ![p] = Finish(@, SSent(req[p].email))]
              /\ UNCHANGED <<store, ver>>
    /\ UNCHANGED <<now, ticks, password, pwLog, nextSecret, started>>

\* transporter.sendMail(...), then the success response
SSendMail(p) ==
    /\ req[p].pc = "s_sendMail"
    /\ \E fault \in BOOLEAN :
         IF fault
         THEN /\ req' = [req EXCEPT ![p] = Finish(@, SMailError)]
              /\ UNCHANGED outbox
         ELSE /\ outbox' = outbox \cup
                    {[to |-> req[p].email, user |-> req[p].user, code |-> req[p].otp,
                      secret |-> req[p].secret, t |-> req[p].checkedAt,
                      seenVer |-> req[p].seenVer, found |-> ~req[p].wrote,
                      expiresInMinutes |-> OTP_EXPIRY_MINUTES,
                      epoch |-> UpdatesOf(req[p].user)]}
              /\ req' = [req EXCEPT ![p] = Finish(@, SSent(req[p].email))]
    /\ UNCHANGED <<now, ticks, store, ver, password, pwLog, nextSecret, started>>

(* ---------------- verification: src/verify_otp/index.js ---------------- *)
OtpInputs == FixedOtps \cup {m.code : m \in outbox}

\* variant: the password length is not checked
VStartNoLengthCheck(p) ==
    /\ CanStart(p)
    /\ \E parses \in BOOLEAN :
       \E email \in Emails : \E otp \in OtpInputs : \E newPassword \in Passwords :
         LET r == [Idle EXCEPT !.kind = "verify", !.email = email, !.otp = otp,
                               !.newPassword = newPassword] IN
         req' = [req EXCEPT ![p] =
                   IF ~parses THEN Finish([Idle EXCEPT !.kind = "verify"], RUnexpected)
                   ELSE IF email = NoEmail \/ otp = NoOtp \/ newPassword = ""
                   THEN Finish(r, VMissing)
                   ELSE IF ~OtpRegexTest(otp) THEN Finish(r, VBadOtpFormat)
                   ELSE [r EXCEPT !.pc = "v_findUser"]]
    /\ started' = started + 1
    /\ UNCHANGED <<now, ticks, store, ver, password, pwLog, outbox, nextSecret>>

\* parse the body and validate the three fields, then ask the directory
VStart(p) ==
    /\ CanStart(p)
    /\ \E parses \in BOOLEAN :
       \E email \in Emails : \E otp \in OtpInputs : \E newPassword \in Passwords :
         LET r == [Idle EXCEPT !.kind = "verify", !.email = email, !.otp = otp,
                               !.newPassword = newPassword] IN
         req' = [req EXCEPT ![p] =
                   IF ~parses THEN Finish([Idle EXCEPT !.kind = "verify"], RUnexpected)
                   ELSE IF email = NoEmail \/ otp = NoOtp \/ newPassword = ""
                   THEN Finish(r, VMissing)
                   ELSE IF ~OtpRegexTest(otp) THEN Finish(r, VBadOtpFormat)
                   ELSE IF Len(newPassword) < MinPasswordLength THEN Finish(r, VWeakPassword)
                   ELSE [r EXCEPT !.pc = "v_findUser"]]
    /\ started' = started + 1
    /\ UNCHANGED <<now, ticks, store, ver, password, pwLog, outbox, nextSecret>>

\* variant: the empty directory result is answered with status 400
VFindUserNotFound400(p) ==
    /\ req[p].pc = "v_findUser"
    /\ \E fault \in BOOLEAN :
         req' = [req EXCEPT ![p] =
                   IF fault THEN Finish(@, RDirectoryError)
                   ELSE IF req[p].email \notin DOMAIN Directory
                        THEN Finish(@, Fail(400, "No account found with this email address"))
                   ELSE [@ EXCEPT !.pc = "v_fetchDoc", !.user = Directory[req[p].email]]]
    /\ UNCHANGED <<now, ticks, store, ver, password, pwLog, outbox, nextSecret, started>>

\* users.list([Query.equal("email", [email])])
VFindUser(p) ==
    /\ req[p].pc = "v_findUser"
    /\ \E fault \in BOOLEAN :
         req' = [req EXCEPT ![p] =
                   IF fault THEN Finish(@, RDirectoryError)
                   ELSE IF req[p].email \notin DOMAIN Directory THEN Finish(@, RNoAccount)
                   ELSE [@ EXCEPT !.pc = "v_fetchDoc", !.user = Directory[req[p].email]]]
    /\ UNCHANGED <<now, ticks, store, ver, password, pwLog, outbox, nextSecret, started>>

\* variant: the absent secret is not checked, and the engine throws on it
VVerifyNoAbsentCheck(r, secret) ==
    LET s == [r EXCEPT !.secret = secret, !.checkedAt = now] IN
    IF secret = Null \/ EngineThrows(secret) THEN Finish(s, VEngineError)
    ELSE IF ~Check(r.otp, secret, now, VerifyOptions) THEN Finish(s, VInvalidOtp)
    ELSE [s EXCEPT !.pc = "v_updatePassword"]

\* the secret check and authenticator.verify on the document just read
VVerify(r, secret) ==
    LET s == [r EXCEPT !.secret = secret, !.checkedAt = now] IN
    IF secret = Null THEN Finish(s, VNoPending)
    ELSE IF EngineThrows(secret) THEN Finish(s, VEngineError)
    ELSE IF ~Check(r.otp, secret, now, VerifyOptions) THEN Finish(s, VInvalidOtp)
    ELSE [s EXCEPT !.pc = "v_updatePassword"]

\* variant: a mismatching code removes the stored secret
VFetchDocBurnsSecret(p) ==
    /\ req[p].pc = "v_fetchDoc"
    /\ \E fault \in BOOLEAN :
         LET u == req[p].user
             burns == /\ ~fault /\ u \in ProfileUsers /\ store[u] > 0
                      /\ ~Check(req[p].otp, store[u], now, VerifyOptions) IN
         /\ req' = [req EXCEPT ![p] =
                      IF fault THEN Finish(@, RProfileError)
                      ELSE IF u \notin ProfileUsers THEN Finish(@, RNoProfile)
                      ELSE VVerify([@ EXCEPT !.seenVer = ver[u]], store[u])]
         /\ store' = IF burns THEN [store EXCEPT ![u] = Null] ELSE store
         /\ ver' = IF burns THEN [ver EXCEPT ![u] = @ + 1] ELSE ver
    /\ UNCHANGED <<now, ticks, password, pwLog, outbox, nextSecret, started>>

\* database.listDocuments(...), then the checks up to the call of updatePassword
VFetchDoc(p) ==
    /\ req[p].pc = "v_fetchDoc"
    /\ \E fault \in BOOLEAN :
         LET u == req[p].user IN
         req' = [req EXCEPT ![p] =
                   IF fault THEN Finish(@, RProfileError)
                   ELSE IF u \notin ProfileUsers THEN Finish(@, RNoProfile)
                   ELSE VVerify([@ EXCEPT !.seenVer = ver[u]], store[u])]
    /\ UNCHANGED <<now, ticks, store, ver, password, pwLog, outbox, nextSecret, started>>

\* variant: the catch of a failed password update does not return
VUpdatePasswordFallsThrough(p) ==
    /\ req[p].pc = "v_updatePassword"
    /\ \E fault \in BOOLEAN :
         LET u == req[p].user IN
         IF fault
         THEN /\ req' = [req EXCEPT ![p] = [@ EXCEPT !.pc = "v_clearSecret"]]
              /\ UNCHANGED <<password, pwLog>>
         ELSE /\ password' = [password EXCEPT ![u] = req[p].newPassword]
              /\ pwLog' = Append(pwLog, [user |-> u, secret |-> req[p].secret,
                                         otp |-> req[p].otp, stored |-> store[u],
                                         checkedAt |-> req[p].checkedAt, t |-> now])
              /\ req' = [req EXCEPT ![p] = [@ EXCEPT !.pc = "v_clearSecret"]]
    /\ UNCHANGED <<now, ticks, store, ver, outbox, nextSecret, started>>

\* variant: a failed password update also removes the secret
VUpdatePasswordClearsOnFault(p) ==
    /\ req[p].pc = "v_updatePassword"
    /\ \E fault \in BOOLEAN :
         LET u == req[p].user IN
         IF fault
         THEN /\ req' = [req EXCEPT ![p] = Finish(@, VUpdateError)]
              /\ store' = [store EXCEPT ![u] = Null]
              /\ ver' = [ver EXCEPT ![u] = @ + 1]
              /\ UNCHANGED <<password, pwLog>>
         ELSE /\ password' = [password EXCEPT ![u] = req[p].newPassword]
              /\ pwLog' = Append(pwLog, [user |-> u, secret |-> req[p].secret,
                                         otp |-> req[p].otp, stored |-> store[u],
                                         checkedAt |-> req[p].checkedAt, t |-> now])
              /\ req' = [req EXCEPT ![p] = [@ EXCEPT !.pc = "v_clearSecret"]]
              /\ UNCHANGED <<store, ver>>
    /\ UNCHANGED <<now, ticks, outbox, nextSecret, started>>

\* users.updatePassword(user.$id, newPassword)
VUpdatePassword(p) ==
    /\ req[p].pc = "v_updatePassword"
    /\ \E fault \in BOOLEAN :
         LET u == req[p].user IN
         IF fault
         THEN /\ req' = [req EXCEPT ![p] = Finish(@, VUpdateError)]
              /\ UNCHANGED <<password, pwLog>>
         ELSE /\ password' = [password EXCEPT ![u] = req[p].newPassword]
              /\ pwLog' = Append(pwLog, [user |-> u, secret |-> req[p].secret,
                                         otp |-> req[p].otp, stored |-> store[u],
                                         checkedAt |-> req[p].checkedAt, t |-> now])
              /\ req' = [req EXCEPT ![p] = [@ EXCEPT !.pc = "v_clearSecret"]]
    /\ UNCHANGED <<now, ticks, store, ver, outbox, nextSecret, started>>

\* variant: the update leaves the stored secret in place
VClearSecretKeeps(p) ==
    /\ req[p].pc = "v_clearSecret"
    /\ \E fault \in BOOLEAN :
         LET u == req[p].user IN
         IF fault
         THEN /\ req' = [req EXCEPT ![p] = [@ EXCEPT !.pc = "v_respond", !.clr = "fault"]]
              /\ UNCHANGED <<store, ver>>
         ELSE /\ store' = [store EXCEPT ![u] = req[p].secret]
              /\ ver' = [ver EXCEPT ![u] = @ + 1]
              /\ req' = [req EXCEPT ![p] = [@ EXCEPT !.pc = "v_respond", !.clr = "ok",
                                                       !.seenVer = ver[u] + 1]]
    /\ UNCHANGED <<now, ticks, password, pwLog, outbox, nextSecret, started>>

\* variant: a fault of the clearing write reaches the outer catch
VClearSecretFatal(p) ==
    /\ req[p].pc = "v_clearSecret"
    /\ \E fault \in BOOLEAN :
         LET u == req[p].user IN
         IF fault
         THEN /\ req' = [req EXCEPT ![p] = Finish([@ EXCEPT !.clr = "fault"], RUnexpected)]
              /\ UNCHANGED <<store, ver>>
         ELSE /\ store' = [store EXCEPT ![u] = Null]
              /\ ver' = [ver EXCEPT ![u] = @ + 1]
              /\ req' = [req EXCEPT ![p] = [@ EXCEPT !.pc = "v_respond", !.clr = "ok",
                                                       !.seenVer = ver[u] + 1]]
    /\ UNCHANGED <<now, ticks, password, pwLog, outbox, nextSecret, started>>

\* variant: a fault of the clearing write is caught nowhere, and the handler
\* ends without a response
VClearSecretUncaught(p) ==
    /\ req[p].pc = "v_clearSecret"
    /\ \E fault \in BOOLEAN :
         LET u == req[p].user IN
         IF fault
         THEN /\ req' = [req EXCEPT ![p] = [@ EXCEPT !.pc = "crashed", !.clr = "fault"]]
              /\ UNCHANGED <<store, ver>>
         ELSE /\ store' = [store EXCEPT ![u] = Null]
              /\ ver' = [ver EXCEPT ![u] = @ + 1]
              /\ req' = [req EXCEPT ![p] = [@ EXCEPT !.pc = "v_respond", !.clr = "ok",
                                                       !.seenVer = ver[u] + 1]]
    /\ UNCHANGED <<now, ticks, password, pwLog, outbox, nextSecret, started>>

\* database.updateDocument(..., {passwordResetSecret: null}); a fault is only logged
VClearSecret(p) ==
    /\ req[p].pc = "v_clearSecret"
    /\ \E fault \in BOOLEAN :
         LET u == req[p].user IN
         IF fault
         THEN /\ req' = [req EXCEPT ![p] = [@ EXCEPT !.pc = "v_respond", !.clr = "fault"]]
              /\ UNCHANGED <<store, ver>>
         ELSE /\ store' = [store EXCEPT ![u] = Null]
              /\ ver' = [ver EXCEPT ![u] = @ + 1]
              /\ req' = [req EXCEPT ![p] = [@ EXCEPT !.pc = "v_respond", !.clr = "ok",
                                                       !.seenVer = ver[u] + 1]]
    /\ UNCHANGED <<now, ticks, password, pwLog, outbox, nextSecret, started>>

\* the success response
VRespond(p) ==
    /\ req[p].pc = "v_respond"
    /\ req' = [req EXCEPT ![p] = Finish(@, VSuccess)]
    /\ UNCHANGED <<now, ticks, store, ver, password, pwLog, outbox, nextSecret, started>>

Next ==
    \/ Tick
    \/ \E p \in Slots : SStart(p)
    \/ \E p \in Slots : SFindUser(p)
    \/ \E p \in Slots : SFetchDoc(p)
    \/ \E p \in Slots : SWriteSecret(p)
    \/ \E p \in Slots : SSendMail(p)
    \/ \E p \in Slots : VStart(p)
    \/ \E p \in Slots : VFindUser(p)
    \/ \E p \in Slots : VFetchDoc(p)
    \/ \E p \in Slots : VUpdatePassword(p)
    \/ \E p \in Slots : VClearSecret(p)
    \/ \E p \in Slots : VRespond(p)

Spec == Init /\ [][Next]_vars

\* the collaborator call the request in slot p waits for returns or fails, and
\* the handler runs on to its next call or to its response
Proceed(p) ==
    \/ SFindUser(p) \/ SFetchDoc(p) \/ SWriteSecret(p) \/ SSendMail(p)
    \/ VFindUser(p) \/ VFetchDoc(p) \/ VUpdatePassword(p) \/ VClearSecret(p)
    \/ VRespond(p)

\* every collaborator call eventually returns or fails
FairSpec == Spec /\ \A p \in Slots : WF_vars(Proceed(p))

TypeOK ==
    /\ now \in Nat
    /\ \A u \in ProfileUsers : store[u] \in Int
    /\ started <= MaxRequests

(* ------------------------------ properties ----------------------------- *)
SendWindow(t) == TotpCounter(t, SendOptions)
VerifyWindow(t) == TotpCounter(t, VerifyOptions)

\* slot p completes its read of the profile document in this step
ReadsDoc(p, kind) ==
    /\ req[p].kind = kind
    /\ req[p].pc = IF kind = "send" THEN "s_fetchDoc" ELSE "v_fetchDoc"
    /\ req'[p] # req[p]
    /\ req'[p].resp # RProfileError
    /\ req[p].user \in ProfileUsers

\* C1: the codes derived from one stored secret authorize at most one
\* successful password update, whatever the interleaving of requests.
C1_SingleUse ==
    \A i \in 1 .. Len(pwLog) : \A j \in 1 .. Len(pwLog) :
        (pwLog[i].user = pwLog[j].user /\ pwLog[i].secret = pwLog[j].secret) => i = j

\* a verification that reads an absent secret ends with "no pending reset"
\* and updates no password
AbsentMeansNoPending ==
    \A p \in Slots :
        (ReadsDoc(p, "verify") /\ store[req[p].user] = Null)
            => /\ req'[p].pc = "done"
               /\ req'[p].resp = VNoPending
               /\ pwLog' = pwLog
               /\ password' = password

\* C2 as stated: whenever a verification returns success the stored secret
\* is absent, and a verification that follows ends with "no pending reset".
C2_SuccessMeansCleared ==
    [][/\ \A p \in Slots :
            (req[p].pc = "v_respond" /\ req'[p].pc = "done")
                => (req'[p].resp = VSuccess /\ store'[req[p].user] = Null)
       /\ AbsentMeansNoPending]_vars

\* C2 (amended): whenever a verification returns success after its clearing
\* write succeeded, and the document was not written again since that write,
\* the stored secret is absent; a verification that reads an absent secret
\* ends with "no pending reset" (400) and performs no password update.
C2_ClearedWhenClearSucceeded ==
    [][/\ \A p \in Slots :
            (/\ req[p].pc = "v_respond" /\ req'[p].pc = "done"
             /\ req[p].clr = "ok"
             /\ ver[req[p].user] = req[p].seenVer)
                => (req'[p].resp = VSuccess /\ store'[req[p].user] = Null)
       /\ AbsentMeansNoPending]_vars

\* the requests ran one after the other in slot 1: an issuance, a verification
\* that updated the password and cleared the secret, and a verification with
\* the same code in the same window, which ended with "no pending reset"
C2_Witness ==
    /\ \A q \in Slots : q # 1 => req[q] = Idle
    /\ req[1].kind = "verify" /\ req[1].pc = "done" /\ req[1].resp = VNoPending
    /\ Len(pwLog) = 1
    /\ pwLog[1].user = req[1].user /\ pwLog[1].otp = req[1].otp
    /\ VerifyWindow(pwLog[1].checkedAt) = VerifyWindow(req[1].checkedAt)
    /\ store[req[1].user] = Null

\* C3: when a verification performs the password update, the submitted code
\* is the code of the secret stored at that moment for the current window,
\* and the stored secret is the one the request read.
C3_UpdateMatchesStored ==
    \A i \in 1 .. Len(pwLog) :
        /\ pwLog[i].stored # Null
        /\ pwLog[i].stored = pwLog[i].secret
        /\ Check(pwLog[i].otp, pwLog[i].stored, pwLog[i].t, VerifyOptions)

\* C4: a code delivered by a successful issuance is accepted by a
\* verification made in the same window while no verification of that user
\* has succeeded since the delivery.
C4_DeliveredAccepted ==
    [][\A p \in Slots :
          (/\ ReadsDoc(p, "verify")
           /\ \E m \in outbox :
                 /\ m.user = req[p].user
                 /\ m.code = req[p].otp
                 /\ SendWindow(m.t) = VerifyWindow(now)
                 /\ m.epoch = UpdatesOf(m.user))
              => req'[p].pc = "v_updatePassword"]_vars

\* C5: a stored secret changes only from absent to present or from present
\* to absent; no request replaces a present secret by a different one.
C5_NoOverwrite ==
    [][\A u \in ProfileUsers :
          store'[u] # store[u] => (store[u] = Null \/ store'[u] = Null)]_vars

\* C6: an issuance that finds a secret present makes no store write and
\* derives the code of that secret; two such issuances that read the same
\* document version in the same window derive equal codes.
C6_IssuanceIdempotent ==
    /\ [](\A m1 \in outbox : \A m2 \in outbox :
            (/\ m1.found /\ m2.found
             /\ m1.user = m2.user
             /\ m1.seenVer = m2.seenVer
             /\ SendWindow(m1.t) = SendWindow(m2.t))
                => (m1.code = m2.code /\ m1.secret = m2.secret))
    /\ [][\A p \in Slots :
            (ReadsDoc(p, "send") /\ store[req[p].user] # Null)
                => /\ store' = store /\ ver' = ver
                   /\ req'[p].pc # "s_writeSecret"
                   /\ req'[p].pc = "s_sendMail"
                        => /\ req'[p].secret = store[req[p].user]
                           /\ req'[p].otp = Generate(store[req[p].user], now, SendOptions)
                           /\ ~req'[p].wrote]_vars

C6_Witness ==
    \E m1 \in outbox : \E m2 \in outbox :
        /\ m1 # m2
        /\ m1.found /\ m2.found
        /\ m1.user = m2.user
        /\ m1.seenVer = m2.seenVer
        /\ SendWindow(m1.t) = SendWindow(m2.t)
        /\ store[m1.user] = m1.secret

\* a verification slot that has run the code check against a usable secret
Checked(p) == req[p].kind = "verify" /\ req[p].secret > 0

C8_RoundTrip ==
    /\ \A m \in outbox : Check(m.code, m.secret, m.t, VerifyOptions)
    /\ \A u \in ProfileUsers :
          store[u] > 0
              => Check(Generate(store[u], now, SendOptions), store[u], now, VerifyOptions)

C8_Witness ==
    \E m \in outbox :
        /\ m.t > 0
        /\ m.code[1] = "0"
        /\ Check(m.code, m.secret, m.t, VerifyOptions)

\* C9: a failed password update ends the request with the 500
\* credential-update error and leaves the stored secret as it is, so the
\* same code is accepted again by the check within the window.
C9_UpdateFaultKeepsSecret ==
    [][\A p \in Slots :
          (req[p].pc = "v_updatePassword" /\ req'[p] # req[p])
              => \/ /\ req'[p].pc = "v_clearSecret"
                    /\ Len(pwLog') = Len(pwLog) + 1
                 \/ /\ req'[p].pc = "done"
                    /\ req'[p].resp = VUpdateError
                    /\ store' = store
                    /\ pwLog' = pwLog /\ password' = password
                    /\ (/\ store'[req[p].user] = req[p].secret
                        /\ VerifyWindow(now') = VerifyWindow(req[p].checkedAt))
                           => Check(req[p].otp, store'[req[p].user], now', VerifyOptions)]_vars

C9_Witness ==
    \E p \in Slots :
        /\ req[p].kind = "verify" /\ req[p].pc = "done"
        /\ req[p].resp = VUpdateError
        /\ store[req[p].user] = req[p].secret
        /\ VerifyWindow(now) = VerifyWindow(req[p].checkedAt)
        /\ Check(req[p].otp, store[req[p].user], now, VerifyOptions)

\* C10: when the password update succeeded and the clearing write fails,
\* the verification still returns the success response.
C10_ClearFaultStillSuccess ==
    \A p \in Slots :
        req[p].clr # "none"
            => /\ req[p].pc \in {"v_respond", "done"}
               /\ req[p].pc = "done" => req[p].resp = VSuccess

C10_Witness ==
    \E p \in Slots :
        /\ req[p].clr = "fault" /\ req[p].pc = "done"
        /\ req[p].resp = VSuccess
        /\ store[req[p].user] = req[p].secret
        /\ \E i \in 1 .. Len(pwLog) : pwLog[i].secret = req[p].secret

\* an issuance slot whose delivery failed
MailFailed(p) ==
    req[p].kind = "send" /\ req[p].pc = "done" /\ req[p].resp = SMailError

\* C11: a failed delivery ends the issuance with the 500 delivery error and
\* leaves the secret stored; an issuance that then reads that secret writes
\* nothing, reuses it and, in the same window, derives the same code.
C11_DeliveryFaultKeepsSecret ==
    [][\A p \in Slots :
          /\ (req[p].pc = "s_sendMail" /\ req'[p] # req[p])
                => /\ req'[p].pc = "done"
                   /\ store' = store /\ ver' = ver
                   /\ \/ req'[p].resp = SMailError /\ outbox' = outbox
                      \/ /\ req'[p].resp = SSent(req[p].email)
                         /\ \E m \in outbox' : m.to = req[p].email /\ m.code = req[p].otp
          /\ \A q \in Slots :
                (/\ MailFailed(p)
                 /\ ReadsDoc(q, "send")
                 /\ req[q].user = req[p].user
                 /\ store[req[p].user] = req[p].secret)
                   => /\ req'[q].pc = "s_sendMail"
                      /\ store' = store /\ ver' = ver
                      /\ ~req'[q].wrote
                      /\ req'[q].secret = req[p].secret
                      /\ SendWindow(now) = SendWindow(req[p].checkedAt)
                           => req'[q].otp = req[p].otp]_vars

\* slot p failed to deliver; the retry in slot q found the secret of p stored
\* and derived the same code in the same window
C11_Witness ==
    \E p \in Slots : \E q \in Slots :
        /\ MailFailed(p)
        /\ req[q].kind = "send" /\ req[q].pc = "s_sendMail"
        /\ req[q].user = req[p].user
        /\ ~req[q].wrote
        /\ req[q].secret = req[p].secret
        /\ req[q].otp = req[p].otp
        /\ req[q].seenVer >= req[p].seenVer + (IF req[p].wrote THEN 1 ELSE 0)
        /\ store[req[p].user] = req[p].secret

\* C12: an issuance for an email without an account ends with the 404
\* not-found response; it writes no document, derives no code and sends no
\* mail, and every user's secret is as it was.
C12_UnknownEmailNoEffect ==
    /\ [](\A p \in Slots :
            (req[p].kind = "send" /\ req[p].pc = "done" /\ req[p].resp = RNoAccount)
                => /\ req[p].resp.status = 404
                   /\ req[p].otp = NoOtp /\ req[p].secret = Null
                   /\ ~req[p].wrote /\ req[p].user = "none")
    /\ [][\A p \in Slots :
            (req[p].pc = "s_findUser" /\ req'[p] # req[p])
                => /\ store' = store /\ ver' = ver /\ outbox' = outbox
                   /\ nextSecret' = nextSecret
                   /\ (/\ req[p].email \notin DOMAIN Directory
                       /\ req'[p].resp # RDirectoryError)
                          => (req'[p].pc = "done" /\ req'[p].resp = RNoAccount)]_vars

C12_Witness ==
    \E p \in Slots :
        /\ req[p].kind = "send" /\ req[p].pc = "done" /\ req[p].resp = RNoAccount
        /\ store["u1"] > 0
        /\ outbox = {}

\* the three validation errors of the verification handler
ValidationErrors == {VMissing, VBadOtpFormat, VWeakPassword}

ValidInputs(r) ==
    /\ r.email # NoEmail /\ r.otp # NoOtp /\ r.newPassword # ""
    /\ OtpRegexTest(r.otp)
    /\ Len(r.newPassword) >= MinPasswordLength

\* slot p starts a verification in this step
StartsVerify(p) ==
    /\ Free(p) /\ started' = started + 1
    /\ req'[p] # req[p] /\ req'[p].kind = "verify"

\* C13: a verification with a missing field, a code that is not 6 digits or
\* a password shorter than 8 characters ends with a 400 error before any
\* collaborator is called, whether or not the code would have matched.
C13_InvalidInputRejectedFirst ==
    /\ [](\A p \in Slots :
            req[p].kind = "verify"
                => /\ req[p].pc \notin {"idle", "done"} => ValidInputs(req[p])
                   /\ (req[p].pc = "done" /\ req[p].resp \in ValidationErrors)
                        => /\ req[p].resp.status = 400
                           /\ req[p].user = "none" /\ req[p].secret = Null
                           /\ req[p].clr = "none")
    /\ [](\A i \in 1 .. Len(pwLog) : OtpRegexTest(pwLog[i].otp))
    /\ [](\A u \in DOMAIN password :
            password[u] # "OldPass000" => Len(password[u]) >= MinPasswordLength)
    /\ [][\A p \in Slots :
            StartsVerify(p)
                => /\ UNCHANGED <<store, ver, password, pwLog, outbox>>
                   /\ req'[p].pc = "v_findUser"
                        \/ (req'[p].pc = "done" /\
                            req'[p].resp \in ValidationErrors \cup {RUnexpected})]_vars

\* a short password was rejected although the submitted code matches the
\* stored secret in the current window
C13_Witness ==
    \E p \in Slots :
        /\ req[p].kind = "verify" /\ req[p].pc = "done"
        /\ req[p].resp = VWeakPassword
        /\ store["u1"] > 0
        /\ Check(req[p].otp, store["u1"], now, VerifyOptions)
        /\ pwLog = <<>>

\* a verification slot rejected because the engine threw
EngineFaulted(p) ==
    req[p].kind = "verify" /\ req[p].pc = "done" /\ EngineThrows(req[p].secret)

\* a verification slot rejected because the code did not match
Mismatched(p) ==
    /\ Checked(p) /\ req[p].pc = "done"
    /\ ~Check(req[p].otp, req[p].secret, req[p].checkedAt, VerifyOptions)

\* C14: a mismatching code and an engine fault during the code check get
\* the same response (status and message).
C14_FaultLikeMismatch ==
    \A p \in Slots : \A q \in Slots :
        (EngineFaulted(p) /\ Mismatched(q)) => req[p].resp = req[q].resp

\* C15: a verification that reads an absent secret ends with the "no
\* pending reset" response, which differs from the invalid-or-expired
\* responses, and goes on neither to the code check nor to the update.
C15_AbsentSecretNoPending ==
    /\ [](\A p \in Slots :
            (req[p].kind = "verify" /\ req[p].pc = "done" /\ req[p].resp = VNoPending)
                => /\ req[p].secret = Null /\ req[p].clr = "none"
                   /\ req[p].resp \notin {VInvalidOtp, VEngineError})
    /\ [](\A p \in Slots :
            (req[p].kind = "verify" /\ req[p].pc \in {"v_updatePassword", "v_clearSecret", "v_respond"})
                => req[p].secret # Null)
    /\ [][\A p \in Slots :
            (ReadsDoc(p, "verify") /\ store[req[p].user] = Null)
                => /\ req'[p].pc = "done"
                   /\ req'[p].resp = VNoPending
                   /\ req'[p].resp.status = 400
                   /\ UNCHANGED <<store, ver, password, pwLog>>]_vars

C15_Witness ==
    \E p \in Slots :
        /\ req[p].kind = "verify" /\ req[p].pc = "done"
        /\ req[p].resp = VNoPending
        /\ req[p].user = "u1" /\ store["u1"] = Null
        /\ req[p].otp = OtpWrong

\* the eight failure categories listed for verification; the 500 answers of
\* the directory and profile lookups are counted as generic errors
ListedFailures ==
    {VMissing, VBadOtpFormat, VWeakPassword, RNoAccount, VNoPending,
     VEngineError, VInvalidOtp, VUpdateError,
     RUnexpected, RDirectoryError, RProfileError}

FailedVerify(p) ==
    req[p].kind = "verify" /\ req[p].pc = "done" /\ ~req[p].resp.success

\* C16 as stated: every failing verification ends in one of the eight listed
\* failure categories.
C16_EightCategories ==
    \A p \in Slots : FailedVerify(p) => req[p].resp \in ListedFailures

\* C16 (amended): every failing verification ends in one of the eight
\* listed categories or in profile-not-found (404).
C16_NineCategories ==
    \A p \in Slots :
        FailedVerify(p)
            => /\ req[p].resp \in ListedFailures \cup {RNoProfile}
               /\ req[p].resp.status \in {400, 404, 500}
               /\ req[p].resp.status = 404 => req[p].resp \in {RNoAccount, RNoProfile}

C16_Witness ==
    \E p \in Slots : FailedVerify(p) /\ req[p].resp = RNoProfile /\ req[p].user = "u3"

\* the password update that the request in slot p made
UpdateOf(p) ==
    {i \in 1 .. Len(pwLog) :
        /\ pwLog[i].user = req[p].user /\ pwLog[i].secret = req[p].secret
        /\ pwLog[i].otp = req[p].otp /\ pwLog[i].checkedAt = req[p].checkedAt}

\* C17: within a verification the password update comes only after the
\* secret was read present and the code check returned true, and the
\* clearing write only after the password update succeeded.
C17_VerifyOrdering ==
    /\ [](\A p \in Slots :
            req[p].kind = "verify"
                => /\ (req[p].pc \in {"v_updatePassword", "v_clearSecret", "v_respond"}
                            \/ req[p].clr # "none")
                        => /\ req[p].secret > 0
                           /\ Check(req[p].otp, req[p].secret, req[p].checkedAt, VerifyOptions)
                   /\ (req[p].pc \in {"v_clearSecret", "v_respond"} \/ req[p].clr # "none")
                        => UpdateOf(p) # {})
    /\ [](\A i \in 1 .. Len(pwLog) :
            /\ pwLog[i].secret > 0
            /\ Check(pwLog[i].otp, pwLog[i].secret, pwLog[i].checkedAt, VerifyOptions))
    /\ [][\A u \in ProfileUsers :
            (store[u] # Null /\ store'[u] = Null)
                => \E p \in Slots :
                      /\ req[p].kind = "verify" /\ req[p].pc = "v_clearSecret"
                      /\ req[p].user = u
                      /\ req'[p].clr = "ok"
                      /\ UpdateOf(p) # {}]_vars

C17_Witness ==
    \E p \in Slots :
        /\ req[p].kind = "verify" /\ req[p].pc = "v_respond" /\ req[p].clr = "ok"
        /\ UpdateOf(p) # {}
        /\ store[req[p].user] = Null

\* an issuance slot whose write of the new secret failed
WriteFailed(p) ==
    req[p].kind = "send" /\ req[p].pc = "done" /\ req[p].resp = SStoreError

\* C18: when persisting a new secret fails, the issuance ends with the 500
\* response, derives and delivers no code, and stores nothing.
C18_PersistFaultNoCode ==
    /\ [](\A p \in Slots :
            WriteFailed(p)
                => /\ req[p].resp.status = 500
                   /\ req[p].otp = NoOtp /\ ~req[p].wrote
                   /\ \A m \in outbox : m.secret # req[p].secret
                   /\ \A u \in ProfileUsers : store[u] # req[p].secret
                   /\ ver[req[p].user] = req[p].seenVer => store[req[p].user] = Null)
    /\ [](\A m \in outbox : m.secret > 0 /\ (m.found \/ ver[m.user] > m.seenVer))
    /\ [][\A p \in Slots :
            (req[p].pc = "s_writeSecret" /\ req'[p] # req[p])
                => \/ /\ req'[p].pc = "s_sendMail"
                      /\ store'[req[p].user] = req[p].secret
                      /\ req'[p].wrote
                   \/ /\ WriteFailed(p)'
                      /\ UNCHANGED <<store, ver, outbox>>]_vars

C18_Witness ==
    \E p \in Slots :
        /\ WriteFailed(p)
        /\ req[p].secret > 0
        /\ store[req[p].user] = Null
        /\ outbox = {}

\* C19: the clearing write of a verification removes only the secret the
\* request verified the code against, never a secret that an issuance wrote
\* after the verification read the store.
C19_ClearsOnlyOwnSecret ==
    [][\A p \in Slots :
          (/\ req[p].kind = "verify" /\ req[p].pc = "v_clearSecret"
           /\ req'[p].clr = "ok")
              => store[req[p].user] \in {req[p].secret, Null}]_vars

\* slot p ends a verification with a failure response in this step
FailsNow(p) ==
    /\ req'[p] # req[p]
    /\ req'[p].kind = "verify" /\ req'[p].pc = "done"
    /\ ~req'[p].resp.success

\* C20: a verification that ends with a failure response has written
\* nothing to the store, and unless the failure is the credential-update
\* failure it has not invoked the password update.
C20_FailureLeavesSecret ==
    /\ [](\A p \in Slots :
            FailedVerify(p)
                => /\ req[p].clr = "none"
                   /\ UpdateOf(p) # {} => req[p].resp = VUpdateError)
    /\ [][\A p \in Slots :
            /\ FailsNow(p)
                  => /\ UNCHANGED <<store, ver, password, pwLog>>
                     /\ req[p].pc \notin {"v_clearSecret", "v_respond"}
                     /\ req[p].pc = "v_updatePassword" <=> req'[p].resp = VUpdateError
            /\ (req[p].kind = "verify" /\ req'[p] # req[p]
                 /\ req[p].pc \in {"v_findUser", "v_fetchDoc"})
                  => UNCHANGED <<store, ver, password, pwLog>>]_vars

C20_Witness ==
    \E p \in Slots :
        /\ FailedVerify(p)
        /\ req[p].resp = VInvalidOtp
        /\ req[p].secret > 0
        /\ store[req[p].user] = req[p].secret
        /\ ver[req[p].user] = req[p].seenVer

InFlight(p) == req[p].pc \notin {"idle", "done"}

\* C21: provided every collaborator call eventually returns or fails, every
\* issuance and every verification eventually terminates, and it has then
\* sent exactly one response, whatever the collaborators' faults: no slot
\* stays in flight for ever, a request leaves flight only by its response,
\* and a response once sent is not replaced.
C21_TerminatesWithOneResponse ==
    /\ \A p \in Slots : []<>(~InFlight(p))
    /\ [](\A p \in Slots :
            /\ InFlight(p) => req[p].resp = NoResp
            /\ req[p].pc = "done" => req[p].resp # NoResp
            /\ req[p].pc = "idle" => req[p] = Idle)
    /\ [][\A p \in Slots :
            /\ req'[p].resp # req[p].resp
                  => \/ InFlight(p) /\ req'[p].pc = "done"
                     \/ Free(p) /\ started' = started + 1
            /\ (InFlight(p) /\ ~InFlight(p)')
                  => (req'[p].pc = "done" /\ req'[p].resp # NoResp)
            /\ (req[p].pc = "done" /\ req'[p] # req[p])
                  => started' = started + 1]_vars

\* both slots have ended: a verification whose clearing write failed and an
\* issuance that met a fault, each with its response
C21_Witness ==
    /\ \A p \in Slots : req[p].pc = "done" /\ req[p].resp # NoResp
    /\ \E p \in Slots :
          req[p].kind = "verify" /\ req[p].clr = "fault" /\ req[p].resp = VSuccess
    /\ \E p \in Slots :
          req[p].kind = "send" /\ req[p].resp \in {RDirectoryError, RProfileError, RUnexpected}
====
